---- MODULE Spec2Model ----
(***************************************************************************)
(* Two chat peers (peerA, peerB) that listen on their own address and dial *)
(* the other's.  Each peer process runs main, acceptOnce, establishConn,   *)
(* stdinReader, connWriter, connReader and closeDone; the two programs     *)
(* differ only in their addresses and in the tag put before a typed line.  *)
(*                                                                         *)
(* A TCP connection is named after the peer that dialed it.  Every text    *)
(* line is a sequence of one-character strings.                            *)
(***************************************************************************)
EXTENDS Naturals, Sequences, FiniteSets, TLC

Peers == {"A", "B"}

Other(p) == IF p = "A" THEN "B" ELSE "A"

\* Goroutines of one peer process.
Tasks == {"main", "acceptOnce", "stdinReader", "connWriter", "connReader"}

\* ---- bounds of the model ----
\* Lines a user types in the general scenarios.
MaxLines == 3
\* Frames one direction of a connection buffers before a write blocks.
WireCap == 1
\* Lines typed in the backpressure scenario (a third of them blank): they
\* fill a queue and block a push.
BurstLines == 49
\* Frames the network carries in the backpressure scenario before it stalls.
StallAfter == 1

\* ---- program constants ----
\* make(chan string, 32): outgoing and incoming
QueueCap == 32
\* make(chan net.Conn, 1): acceptCh
AcceptCap == 1

NL == "\n"
CR == "\r"

\* unicode.IsSpace, restricted to the characters of the model
IsSpace(c) == c \in {" ", "\t", NL, CR}

RECURSIVE TrimLeft(_)
TrimLeft(s) == IF s # <<>> /\ IsSpace(Head(s)) THEN TrimLeft(Tail(s)) ELSE s

RECURSIVE TrimRight(_)
TrimRight(s) ==
    IF s # <<>> /\ IsSpace(s[Len(s)]) THEN TrimRight(SubSeq(s, 1, Len(s) - 1)) ELSE s

\* strings.TrimSpace
TrimSpace(s) == TrimRight(TrimLeft(s))

\* "A: " + line, "B: " + line
Tag(p) == <<p, ":", " ">>

\* "RECV -> " + text
RecvMark == <<"R", "E", "C", "V", " ", "-", ">", " ">>

\* msg + "\n" as written by connWriter
Frame(msg) == msg \o <<NL>>

\* bufio.ScanLines on one frame: the text before the newline, without a
\* trailing carriage return
ScanLines(frame) ==
    LET body == IF frame # <<>> /\ frame[Len(frame)] = NL
                THEN SubSeq(frame, 1, Len(frame) - 1) ELSE frame
    IN IF body # <<>> /\ body[Len(body)] = CR
       THEN SubSeq(body, 1, Len(body) - 1) ELSE body

\* fmt.Println("Connection closed. Bye.")
Notice == <<"Connection closed. Bye.">>

\* ---- channel operations ----
ChanSendLifo(ch, v) == <<v>> \o ch

\* ch <- v on a buffered channel with room
ChanSend(ch, v) == Append(ch, v)

ChanFullOver(ch, cap) == Len(ch) >= cap + 1

\* a send on a buffered channel blocks while the buffer is full
ChanFull(ch, cap) == Len(ch) >= cap

VARIABLES
    pc,         \* pc[p][t]: where goroutine t of peer p stands
    proc,       \* proc[p]: "up", "exited" (main returned), "killed", "panicked"
    backlog,    \* backlog[p]: connections established to p's listener, not yet accepted
    acceptCh,   \* acceptCh[p]: the buffered channel of accepted connections
    accConn,    \* accConn[p]: conn held by acceptOnce between Accept and the send
    conn,       \* conn[p]: the connection establishConn returned ("none" before)
    wire,       \* wire[c][p]: frames peer p wrote on connection c, still in flight
    stdin,      \* stdin[p]: the raw lines the user is still to type
    line,       \* line[p]: stdinReader's trimmed line
    outgoing,   \* outgoing[p]
    wrMsg,      \* wrMsg[p]: connWriter's msg
    crText,     \* crText[p]: connReader's sc.Text()
    incoming,   \* incoming[p]
    done,       \* done[p]: "open" or "closed"
    closes,     \* closes[p]: number of close(done) executed
    console,    \* console[p]: what main printed in its loop
    pushed,     \* pushed[p]: history of lines sent on outgoing[p]
    taken,      \* taken[p]: history of lines connWriter received from outgoing[p]
    sent,       \* sent[p]: history of lines flushed to the connection
    recvd,      \* recvd[p]: history of lines sent on incoming[p]
    lateTakes,  \* lateTakes[p]: lines connWriter took while done[p] was closed
    wrFailed,   \* wrFailed[p]: a WriteString or Flush of connWriter returned an error
    netQuota    \* netQuota[p]: frames the network still carries from p to its
                \* peer; at 0 the path from p is stalled and carries nothing

vars == <<pc, proc, backlog, acceptCh, accConn, conn, wire, stdin, line, outgoing,
          wrMsg, crText, incoming, done, closes, console, pushed, taken, sent,
          recvd, lateTakes, wrFailed, netQuota>>

rendezvousVars == <<backlog, acceptCh, accConn, conn>>
stdinVars == <<stdin, line, pushed>>
writerVars == <<wrMsg, taken, sent, lateTakes, wrFailed>>
readerVars == <<crText, recvd, netQuota>>

\* ---- inputs ----
Digits == <<"0", "1", "2", "3", "4", "5", "6", "7", "8", "9">>

\* i in decimal, two digits
NumLine(i) == <<Digits[((i \div 10) % 10) + 1], Digits[(i % 10) + 1]>>

\* the i-th raw line a user types: its number with blanks around it, and
\* every third line blank, so that all the lines sent differ
Typed(i) ==
    IF i % 3 = 2 THEN <<" ", "\t">> ELSE <<" ">> \o NumLine(i) \o <<" ", CR>>

\* the first n lines typed
Script(n) == [i \in 1..n |-> Typed(i)]

InitRest ==
    /\ pc = [p \in Peers |-> [t \in Tasks |-> IF t = "main" THEN "listen" ELSE "idle"]]
    /\ proc = [p \in Peers |-> "up"]
    /\ backlog = [p \in Peers |-> <<>>]
    /\ acceptCh = [p \in Peers |-> <<>>]
    /\ accConn = [p \in Peers |-> "none"]
    /\ conn = [p \in Peers |-> "none"]
    /\ wire = [c \in Peers |-> [p \in Peers |-> <<>>]]
    /\ line = [p \in Peers |-> <<>>]
    /\ outgoing = [p \in Peers |-> <<>>]
    /\ wrMsg = [p \in Peers |-> <<>>]
    /\ crText = [p \in Peers |-> <<>>]
    /\ incoming = [p \in Peers |-> <<>>]
    /\ done = [p \in Peers |-> "open"]
    /\ closes = [p \in Peers |-> 0]
    /\ console = [p \in Peers |-> <<>>]
    /\ pushed = [p \in Peers |-> <<>>]
    /\ taken = [p \in Peers |-> <<>>]
    /\ sent = [p \in Peers |-> <<>>]
    /\ recvd = [p \in Peers |-> <<>>]
    /\ lateTakes = [p \in Peers |-> 0]
    /\ wrFailed = [p \in Peers |-> FALSE]

\* what the two users type: at most MaxLines lines in all
Scripts ==
    {[p \in Peers |-> Script(IF p = "A" THEN a ELSE b)] :
        a \in 0..MaxLines, b \in 0..MaxLines} \cap
    {s \in [Peers -> {Script(n) : n \in 0..MaxLines}] :
        Len(s["A"]) + Len(s["B"]) <= MaxLines}

\* a network that carries every frame typed and the end of the stream
Reliable(script) == [p \in Peers |-> Len(script[p]) + 1]

Init ==
    /\ stdin \in Scripts
    /\ netQuota = Reliable(stdin)
    /\ InitRest

Up(p) == proc[p] = "up"

At(p, t, l) == Up(p) /\ pc[p][t] = l

Goto(p, t, l) == pc' = [pc EXCEPT ![p][t] = l]

\* the listener of p accepts connections: bound, and the process still runs
Listening(p) == Up(p) /\ pc[p]["main"] # "listen"

\* The process of p ends (return from main, panic, or kill): its memory and
\* its sockets are gone.  Frames in flight stay where they are.
ProcessEnds(p, how) ==
    /\ proc' = [proc EXCEPT ![p] = how]
    /\ backlog' = [backlog EXCEPT ![p] = <<>>]
    /\ acceptCh' = [acceptCh EXCEPT ![p] = <<>>]
    /\ accConn' = [accConn EXCEPT ![p] = "none"]
    /\ stdin' = [stdin EXCEPT ![p] = <<>>]
    /\ line' = [line EXCEPT ![p] = <<>>]
    /\ outgoing' = [outgoing EXCEPT ![p] = <<>>]
    /\ wrMsg' = [wrMsg EXCEPT ![p] = <<>>]
    /\ crText' = [crText EXCEPT ![p] = <<>>]
    /\ incoming' = [incoming EXCEPT ![p] = <<>>]

\* what every goroutine of an ended process is left as
Gone == [t \in Tasks |-> "gone"]

\* ---- main: net.Listen, go acceptOnce ----
Listen(p) ==
    /\ At(p, "main", "listen")
    /\ pc' = [pc EXCEPT ![p]["main"] = "poll", ![p]["acceptOnce"] = "accept"]
    /\ UNCHANGED <<proc, rendezvousVars, wire, stdinVars, outgoing, writerVars,
                   readerVars, incoming, done, closes, console>>

\* ---- acceptOnce ----
\* conn, err := ln.Accept(): blocks until a connection is established
AcceptConn(p) ==
    /\ At(p, "acceptOnce", "accept")
    /\ backlog[p] # <<>>
    /\ accConn' = [accConn EXCEPT ![p] = Head(backlog[p])]
    /\ backlog' = [backlog EXCEPT ![p] = Tail(backlog[p])]
    /\ Goto(p, "acceptOnce", "send")
    /\ UNCHANGED <<proc, acceptCh, conn, wire, stdinVars, outgoing, writerVars,
                   readerVars, incoming, done, closes, console>>

\* acceptCh <- conn
AcceptSend(p) ==
    /\ At(p, "acceptOnce", "send")
    /\ ~ChanFull(acceptCh[p], AcceptCap)
    /\ acceptCh' = [acceptCh EXCEPT ![p] = ChanSend(acceptCh[p], accConn[p])]
    /\ Goto(p, "acceptOnce", "done")
    /\ UNCHANGED <<proc, backlog, accConn, conn, wire, stdinVars, outgoing,
                   writerVars, readerVars, incoming, done, closes, console>>

\* ---- establishConn ----
\* establishConn returns c: main keeps it, prints "Connected to" and starts
\* stdinReader, connWriter and connReader before entering its loop
Established(p, c) ==
    /\ conn' = [conn EXCEPT ![p] = c]
    /\ pc' = [pc EXCEPT ![p]["main"] = "loop",
                        ![p]["stdinReader"] = "check",
                        ![p]["connWriter"] = "select",
                        ![p]["connReader"] = "scan"]

SlotIgnored(p) == FALSE

\* the arm "case c := <-acceptCh" of establishConn's select is ready
SlotReady(p) == acceptCh[p] # <<>>

\* select { case c := <-acceptCh: return c; default: ... }
Poll(p) ==
    /\ At(p, "main", "poll")
    /\ IF SlotReady(p)
       THEN /\ Established(p, Head(acceptCh[p]))
            /\ acceptCh' = [acceptCh EXCEPT ![p] = Tail(acceptCh[p])]
       ELSE /\ Goto(p, "main", "dial")
            /\ UNCHANGED <<acceptCh, conn>>
    /\ UNCHANGED <<proc, backlog, accConn, wire, stdinVars, outgoing, writerVars,
                   readerVars, incoming, done, closes, console>>

DialNever(p) == FALSE

\* net.Dial succeeds when the remote listener is bound (reliable network)
DialOk(p) == Listening(Other(p))

GiveUp(p) == "failed"

\* err != nil: no return, time.Sleep is next
OnDialError(p) == "sleep"

\* c, err := net.Dial("tcp", remote); if err == nil { return c }
Dial(p) ==
    /\ At(p, "main", "dial")
    /\ IF DialOk(p)
       THEN /\ Established(p, p)
            /\ backlog' = [backlog EXCEPT ![Other(p)] = Append(backlog[Other(p)], p)]
       ELSE /\ Goto(p, "main", OnDialError(p))
            /\ UNCHANGED <<backlog, conn>>
    /\ UNCHANGED <<proc, acceptCh, accConn, wire, stdinVars, outgoing, writerVars,
                   readerVars, incoming, done, closes, console>>

\* time.Sleep(dialRetryEvery), then the next iteration
Sleep(p) ==
    /\ At(p, "main", "sleep")
    /\ Goto(p, "main", "poll")
    /\ UNCHANGED <<proc, rendezvousVars, wire, stdinVars, outgoing, writerVars,
                   readerVars, incoming, done, closes, console>>

DoneAlwaysReady(p) == TRUE

DoneNeverReady(p) == FALSE

\* an arm "case <-done" is ready: a receive from a closed channel never blocks
DoneReady(p) == done[p] = "closed"

\* ---- stdinReader ----
\* select { case <-done: return; default: }
StdinCheck(p) ==
    /\ At(p, "stdinReader", "check")
    /\ Goto(p, "stdinReader", IF DoneReady(p) THEN "done" ELSE "scan")
    /\ UNCHANGED <<proc, rendezvousVars, wire, stdinVars, outgoing, writerVars,
                   readerVars, incoming, done, closes, console>>

StdinEndCloses(p) == "cd_check"

\* if !sc.Scan() { return }: at the end of the input stdinReader returns
OnStdinEnd(p) == "done"

\* if !sc.Scan() { return }; line := strings.TrimSpace(sc.Text());
\* if line == "" { continue }
StdinScan(p) ==
    /\ At(p, "stdinReader", "scan")
    /\ IF stdin[p] = <<>>
       THEN /\ Goto(p, "stdinReader", OnStdinEnd(p))
            /\ UNCHANGED <<stdin, line>>
       ELSE /\ stdin' = [stdin EXCEPT ![p] = Tail(stdin[p])]
            /\ line' = [line EXCEPT ![p] = TrimSpace(Head(stdin[p]))]
            /\ Goto(p, "stdinReader",
                    IF TrimSpace(Head(stdin[p])) = <<>> THEN "check" ELSE "push")
    /\ UNCHANGED <<proc, rendezvousVars, wire, pushed, outgoing, writerVars,
                   readerVars, incoming, done, closes, console>>

\* outgoing <- "A: " + line
StdinPush(p) ==
    /\ At(p, "stdinReader", "push")
    /\ ~ChanFull(outgoing[p], QueueCap)
    /\ outgoing' = [outgoing EXCEPT ![p] = ChanSend(outgoing[p], Tag(p) \o line[p])]
    /\ pushed' = [pushed EXCEPT ![p] = Append(pushed[p], Tag(p) \o line[p])]
    /\ Goto(p, "stdinReader", "check")
    /\ UNCHANGED <<proc, rendezvousVars, wire, stdin, line, writerVars,
                   readerVars, incoming, done, closes, console>>

\* ---- connWriter ----
\* the connection write of p fails: the peer's end is gone (reset), or the
\* buffers of the connection are full and the deadline set by
\* SetWriteDeadline passes
WriteMayFail(p) ==
    \/ ~Up(Other(p))
    \/ Len(wire[conn[p]][p]) >= WireCap

\* the connection write of p completes: the buffers of the connection take
\* the bytes (also when the far end is gone and the reset is yet to arrive)
WriteMayPass(p) == Len(wire[conn[p]][p]) < WireCap

\* select { case <-done: return ... }
WriterStop(p) ==
    /\ At(p, "connWriter", "select")
    /\ DoneReady(p)
    /\ Goto(p, "connWriter", "done")
    /\ UNCHANGED <<proc, rendezvousVars, wire, stdinVars, outgoing, writerVars,
                   readerVars, incoming, done, closes, console>>

\* the arm "case msg := <-outgoing" of connWriter's select is ready; a select
\* with several ready arms picks any of them
TakeReady(p) == outgoing[p] # <<>>

\* select { ... case msg := <-outgoing: conn.SetWriteDeadline(...) ... }
WriterTake(p) ==
    /\ At(p, "connWriter", "select")
    /\ TakeReady(p)
    /\ wrMsg' = [wrMsg EXCEPT ![p] = Head(outgoing[p])]
    /\ outgoing' = [outgoing EXCEPT ![p] = Tail(outgoing[p])]
    /\ taken' = [taken EXCEPT ![p] = Append(taken[p], Head(outgoing[p]))]
    /\ lateTakes' = [lateTakes EXCEPT ![p] =
                        IF done[p] = "closed" THEN lateTakes[p] + 1 ELSE lateTakes[p]]
    /\ Goto(p, "connWriter", "write")
    /\ UNCHANGED <<proc, rendezvousVars, wire, stdinVars, sent, wrFailed,
                   readerVars, incoming, done, closes, console>>

AfterWriteError(p) == "select"

\* if err != nil { closeDone(done); return }, after WriteString and after Flush
OnWriteError(p) == "cd_check"

\* conn.SetWriteDeadline(...); _, err := w.WriteString(msg + "\n"); w.Flush()
\* WriteString fills the bufio.Writer and reaches the connection only for a
\* line longer than the buffer; Flush writes the buffer to the connection.
\* Either fails when the connection write fails.
WriterWrite(p) ==
    /\ At(p, "connWriter", "write")
    /\ \/ /\ WriteMayPass(p)
          /\ wire' = [wire EXCEPT ![conn[p]][p] = Append(@, Frame(wrMsg[p]))]
          /\ sent' = [sent EXCEPT ![p] = Append(sent[p], wrMsg[p])]
          /\ Goto(p, "connWriter", "select")
          /\ UNCHANGED wrFailed
       \/ /\ WriteMayFail(p)
          /\ wrFailed' = [wrFailed EXCEPT ![p] = TRUE]
          /\ Goto(p, "connWriter", OnWriteError(p))
          /\ UNCHANGED <<wire, sent>>
    /\ UNCHANGED <<proc, rendezvousVars, stdinVars, outgoing, wrMsg, taken,
                   lateTakes, readerVars, incoming, done, closes, console>>

\* ---- closeDone, called by connWriter and by connReader ----
Closers == {"connWriter", "connReader"}

DoneNeverOpen(p) == FALSE

\* select { case <-done: ...; default: ... }: is done still open?
DoneOpen(p) == done[p] = "open"

\* the select of closeDone
CloseDoneCheck(p, t) ==
    /\ At(p, t, "cd_check")
    /\ Goto(p, t, IF DoneOpen(p) THEN "cd_close" ELSE "done")
    /\ UNCHANGED <<proc, rendezvousVars, wire, stdinVars, outgoing, writerVars,
                   readerVars, incoming, done, closes, console>>

\* close(done); closing a closed channel panics and ends the process
CloseDoneClose(p, t) ==
    /\ At(p, t, "cd_close")
    /\ closes' = [closes EXCEPT ![p] = closes[p] + 1]
    /\ IF done[p] = "open"
       THEN /\ done' = [done EXCEPT ![p] = "closed"]
            /\ Goto(p, t, "done")
            /\ UNCHANGED <<proc, backlog, acceptCh, accConn, stdin, line,
                           outgoing, wrMsg, crText, incoming>>
       ELSE /\ ProcessEnds(p, "panicked")
            /\ pc' = [pc EXCEPT ![p] = Gone]
            /\ UNCHANGED done
    /\ UNCHANGED <<conn, wire, pushed, taken, sent, lateTakes, wrFailed, recvd, netQuota, console>>

\* ---- connReader ----
\* the frames the peer wrote for p on p's connection
Inbound(p) == wire[conn[p]][Other(p)]

\* for sc.Scan() { ... }: the next line, or the end of the stream.  The
\* stream ends when the peer's process is gone: after the buffered frames
\* (FIN), or at once with the frames lost (RST).  A stalled path delivers
\* neither.
ReaderScan(p) ==
    /\ At(p, "connReader", "scan")
    /\ netQuota[Other(p)] > 0
    /\ \/ /\ Inbound(p) # <<>>
          /\ crText' = [crText EXCEPT ![p] = ScanLines(Head(Inbound(p)))]
          /\ wire' = [wire EXCEPT ![conn[p]][Other(p)] = Tail(@)]
          /\ netQuota' = [netQuota EXCEPT ![Other(p)] = @ - 1]
          /\ Goto(p, "connReader", "push")
       \/ /\ ~Up(Other(p))
          /\ wire' = [wire EXCEPT ![conn[p]][Other(p)] = <<>>]
          /\ Goto(p, "connReader", "cd_check")
          /\ UNCHANGED <<crText, netQuota>>
    /\ UNCHANGED <<proc, rendezvousVars, stdinVars, outgoing, writerVars, recvd,
                   incoming, done, closes, console>>

\* incoming <- "RECV -> " + sc.Text()
ReaderPush(p) ==
    /\ At(p, "connReader", "push")
    /\ ~ChanFull(incoming[p], QueueCap)
    /\ incoming' = [incoming EXCEPT ![p] = ChanSend(incoming[p], RecvMark \o crText[p])]
    /\ recvd' = [recvd EXCEPT ![p] = Append(recvd[p], RecvMark \o crText[p])]
    /\ Goto(p, "connReader", "scan")
    /\ UNCHANGED <<proc, rendezvousVars, wire, stdinVars, outgoing, writerVars,
                   crText, netQuota, done, closes, console>>

\* ---- main loop ----
\* case msg := <-incoming: fmt.Println(msg)
MainRecv(p) ==
    /\ At(p, "main", "loop")
    /\ incoming[p] # <<>>
    /\ console' = [console EXCEPT ![p] = Append(console[p], Head(incoming[p]))]
    /\ incoming' = [incoming EXCEPT ![p] = Tail(incoming[p])]
    /\ UNCHANGED <<pc, proc, rendezvousVars, wire, stdinVars, outgoing, writerVars,
                   readerVars, done, closes>>

\* case <-done: fmt.Println("Connection closed. Bye."); return
\* main returns: the deferred Close calls run and the process ends, with
\* every other goroutine where it stands
MainDone(p) ==
    /\ At(p, "main", "loop")
    /\ DoneReady(p)
    /\ console' = [console EXCEPT ![p] = Append(console[p], Notice)]
    /\ Goto(p, "main", "returned")
    /\ ProcessEnds(p, "exited")
    /\ UNCHANGED <<conn, wire, pushed, taken, sent, lateTakes, wrFailed, recvd, netQuota, done, closes>>

\* ---- environment ----
\* the user ends the process (Ctrl+C)
Kill(p) ==
    /\ Up(p)
    /\ ProcessEnds(p, "killed")
    /\ pc' = [pc EXCEPT ![p] = Gone]
    /\ UNCHANGED <<conn, wire, pushed, taken, sent, lateTakes, wrFailed, recvd, netQuota, done, closes, console>>

Next ==
    \E p \in Peers :
        \/ Listen(p)
        \/ AcceptConn(p)
        \/ AcceptSend(p)
        \/ Poll(p)
        \/ Dial(p)
        \/ Sleep(p)
        \/ StdinCheck(p)
        \/ StdinScan(p)
        \/ StdinPush(p)
        \/ WriterStop(p)
        \/ WriterTake(p)
        \/ WriterWrite(p)
        \/ \E t \in Closers : CloseDoneCheck(p, t)
        \/ \E t \in Closers : CloseDoneClose(p, t)
        \/ ReaderScan(p)
        \/ ReaderPush(p)
        \/ MainRecv(p)
        \/ MainDone(p)
        \/ Kill(p)

Spec == Init /\ [][Next]_vars

\* the steps of goroutine t of peer p
TaskStep(p, t) ==
    CASE t = "main" ->
            Listen(p) \/ Poll(p) \/ Dial(p) \/ Sleep(p) \/ MainRecv(p) \/ MainDone(p)
      [] t = "acceptOnce" -> AcceptConn(p) \/ AcceptSend(p)
      [] t = "stdinReader" -> StdinCheck(p) \/ StdinScan(p) \/ StdinPush(p)
      [] t = "connWriter" ->
            \/ WriterStop(p) \/ WriterTake(p) \/ WriterWrite(p)
            \/ CloseDoneCheck(p, t) \/ CloseDoneClose(p, t)
      [] t = "connReader" ->
            \/ ReaderScan(p) \/ ReaderPush(p)
            \/ CloseDoneCheck(p, t) \/ CloseDoneClose(p, t)

\* the Go scheduler runs every goroutine that can take a step; nothing makes
\* a user end a process
Fairness == \A p \in Peers : \A t \in Tasks : WF_vars(TaskStep(p, t))

FairSpec == Spec /\ Fairness

\* the backpressure scenario: the user of A types a burst, the user of B
\* nothing, and the path from A to B stalls after StallAfter frames
InitBurst ==
    /\ stdin = [p \in Peers |-> IF p = "A" THEN Script(BurstLines) ELSE <<>>]
    /\ netQuota = [p \in Peers |-> IF p = "A" THEN StallAfter ELSE 1]
    /\ InitRest

SpecBurst == InitBurst /\ [][Next]_vars

\* ---- properties ----
Session(p) == conn[p] # "none"

\* the workers main starts once the connection is established
Workers == {"stdinReader", "connWriter", "connReader"}

\* the text lines in ls, each behind the receive marker
Marked(ls) == [i \in 1..Len(ls) |-> RecvMark \o ls[i]]

IsPrefix(s, t) == Len(s) <= Len(t) /\ SubSeq(t, 1, Len(s)) = s

\* C1: whatever the interleaving of connReader's and connWriter's calls of
\* closeDone, close(done) is executed at most once in a process and no
\* process dies of a second close.
C1_ClosedOnce == \A p \in Peers : closes[p] <= 1 /\ proc[p] # "panicked"

\* C2: establishConn returns once, and when it returns while acceptOnce has
\* already accepted an inbound connection, the connection it returns is the
\* inbound one.
C2_InboundWins ==
    [][\A p \in Peers :
          /\ Session(p) => conn'[p] = conn[p]
          /\ (~Session(p) /\ conn'[p] # "none"
                /\ pc[p]["acceptOnce"] \in {"send", "done"})
             => conn'[p] = Other(p)]_vars

\* C3: with both resolvers returned, both processes up and no shutdown
\* signalled, once connReader of the peer has nothing left to read, every
\* line the local connWriter wrote has been put on the peer's incoming queue,
\* behind "RECV -> ".
C3_Delivered ==
    \A p \in Peers :
        LET q == Other(p)
        IN (/\ Session(p) /\ Session(q)
            /\ Up(p) /\ Up(q)
            /\ done[p] = "open" /\ done[q] = "open"
            /\ pc[q]["connReader"] = "scan"
            /\ Inbound(q) = <<>>)
           => recvd[q] = Marked(sent[p])

\* C4: under fair scheduling, and whatever the order in which the two
\* peers bind their listeners, both establishConn calls return a connection,
\* unless a user ends one of the processes first.
\* A dial fails, and is retried, only while the remote listener is not bound.
C4_Rendezvous ==
    /\ <>((\A p \in Peers : Session(p)) \/ (\E p \in Peers : proc[p] = "killed"))
    /\ [][\A p \in Peers :
            (pc[p]["main"] = "dial" /\ pc'[p]["main"] = "sleep")
            => ~Listening(Other(p))]_vars

\* both resolvers have returned, one by its dial and one from its slot, and
\* both processes run
C4_BothConnected ==
    /\ \A p \in Peers : Session(p) /\ Up(p)
    /\ conn["A"] = conn["B"]

\* C5: the lines that reached a peer's incoming queue are, in order and
\* without repetition, the first lines pushed onto the other peer's outgoing
\* queue, each behind "RECV -> ".
C5_Fifo == \A p \in Peers : IsPrefix(recvd[Other(p)], Marked(pushed[p]))

\* two lines typed at A have reached B's incoming queue
C5_TwoArrived == Len(recvd["B"]) >= 2 /\ Len(pushed["A"]) >= 2

C7_NoLateTake == \A p \in Peers : lateTakes[p] = 0

\* C8: under fair scheduling, whenever the peer of a running session is
\* gone, the process ends by main's return from its loop, after the notice
\* (or the user ends it).
C8_StreamEndTerminates ==
    \A p \in Peers :
        (Up(p) /\ Session(p) /\ ~Up(Other(p)))
        ~> (\/ /\ proc[p] = "exited"
               /\ console[p] # <<>>
               /\ console[p][Len(console[p])] = Notice
            \/ proc[p] = "killed")

\* C9: once done is closed, each of stdinReader, connWriter and connReader
\* has returned or can take its next step: none waits on a queue or on the
\* connection.
C9_NoWorkerBlocked ==
    \A p \in Peers :
        (Up(p) /\ done[p] = "closed")
        => \A t \in Workers : pc[p][t] = "done" \/ ENABLED TaskStep(p, t)

\* C10: after a WriteString or Flush error connWriter is in closeDone or has
\* returned, with done closed once it has returned; it takes no further
\* line, writes no further line (the failed one included), and the process
\* keeps its connection.
C10_WriteErrorTerminal ==
    /\ [](\A p \in Peers :
            wrFailed[p] =>
                /\ pc[p]["connWriter"] \in {"cd_check", "cd_close", "done", "gone"}
                /\ pc[p]["connWriter"] = "done" => done[p] = "closed")
    /\ [][\A p \in Peers :
            wrFailed[p] =>
                /\ taken'[p] = taken[p]
                /\ sent'[p] = sent[p]
                /\ conn'[p] = conn[p]]_vars

\* connWriter has returned after a failed write, leaving a line in outgoing
C10_FailedAndLeft ==
    \E p \in Peers :
        /\ Up(p)
        /\ wrFailed[p]
        /\ pc[p]["connWriter"] = "done"
        /\ outgoing[p] # <<>>

\* C11: at the end of its input stdinReader returns and leaves done as it is;
\* from then on, while done is open, lines that arrive on the connection are
\* still pushed onto incoming and displayed by main, until the stream ends,
\* a write fails or the process ends.
C11_InputEndKeepsSession ==
    /\ [][\A p \in Peers :
            (pc[p]["stdinReader"] = "scan" /\ stdin[p] = <<>>)
            => /\ pc'[p]["stdinReader"] \in {"scan", "done", "gone"}
               /\ pc'[p]["stdinReader"] = "done"
                  => done' = done /\ closes' = closes]_vars
    /\ \A p \in Peers :
          (/\ Up(p) /\ Session(p)
           /\ pc[p]["stdinReader"] = "done" /\ done[p] = "open"
           /\ \/ Inbound(p) # <<>> /\ netQuota[Other(p)] > 0
              \/ pc[p]["connReader"] = "push"
              \/ incoming[p] # <<>>)
          ~> (\/ ~Up(p)
              \/ done[p] = "closed"
              \/ ~Up(Other(p))
              \/ wrFailed[p]
              \/ /\ Session(p)
                 /\ Inbound(p) = <<>>
                 /\ pc[p]["connReader"] = "scan"
                 /\ incoming[p] = <<>>
                 /\ console[p] = recvd[p])

\* stdinReader has returned at the end of its input, done is open, main has
\* displayed a line and a further line waits on incoming
C11_ReceivingAfterInputEnd ==
    \E p \in Peers :
        /\ Up(p)
        /\ pc[p]["stdinReader"] = "done"
        /\ done[p] = "open"
        /\ console[p] # <<>>
        /\ incoming[p] # <<>>

\* C12: done is open until establishConn has returned; it is closed only by
\* the close(done) of connReader after the end of the stream or of connWriter
\* after a failed write, in a step that moves neither stdinReader nor main;
\* connReader does not return with done open; and once closed, done stays
\* closed.
C12_Latch ==
    /\ [](\A p \in Peers :
            /\ ~Session(p) => done[p] = "open"
            /\ pc[p]["connReader"] = "done" => done[p] = "closed")
    /\ [][\A p \in Peers :
            /\ done[p] = "closed" => done'[p] = "closed"
            /\ (done[p] = "open" /\ done'[p] = "closed")
               => /\ pc'[p]["stdinReader"] = pc[p]["stdinReader"]
                  /\ pc'[p]["main"] = pc[p]["main"]
                  /\ \E t \in Closers :
                        /\ pc[p][t] = "cd_close" /\ pc'[p][t] = "done"
                        /\ t = "connWriter" => wrFailed[p]
                        /\ t = "connReader" => ~Up(Other(p))]_vars

\* connReader closed done at the end of the stream, no write having failed,
\* and main has not yet left its loop
C12_RaisedByReader ==
    \E p \in Peers :
        /\ At(p, "main", "loop")
        /\ done[p] = "closed"
        /\ closes[p] = 1
        /\ ~wrFailed[p]
        /\ pc[p]["connReader"] = "done"

\* C13: acceptCh never holds more than one connection and acceptOnce never
\* waits to send on it; once establishConn has returned, by its dial or from
\* acceptCh, the listener accepts no connection.
C13_OneInbound ==
    /\ [](\A p \in Peers :
            /\ Len(acceptCh[p]) <= AcceptCap
            /\ At(p, "acceptOnce", "send") => ~ChanFull(acceptCh[p], AcceptCap))
    /\ [][\A p \in Peers :
            Session(p)
            => ~(pc[p]["acceptOnce"] = "accept" /\ pc'[p]["acceptOnce"] = "send")]_vars

\* C14: an iteration of establishConn that finds a connection in acceptCh
\* returns that connection, takes it out of acceptCh and dials nothing; the
\* resolver goes on to net.Dial only from its select and only when acceptCh
\* was found empty; a connection is opened to the peer's listener only by
\* the net.Dial that follows.
C14_SlotFirst ==
    [][\A p \in Peers :
          /\ (pc[p]["main"] = "poll" /\ acceptCh[p] # <<>>
                /\ pc'[p]["main"] \notin {"poll", "gone"})
             => /\ pc'[p]["main"] = "loop"
                /\ conn'[p] = Head(acceptCh[p])
                /\ acceptCh'[p] = Tail(acceptCh[p])
                /\ backlog' = backlog
          /\ (pc[p]["main"] # "dial" /\ pc'[p]["main"] = "dial")
             => pc[p]["main"] = "poll" /\ acceptCh[p] = <<>>
          /\ (Len(backlog'[Other(p)]) > Len(backlog[Other(p)]))
             => pc[p]["main"] = "dial"]_vars

\* a resolver has returned the connection it found in acceptCh
C14_ReturnedInbound ==
    \E p \in Peers :
        /\ Up(p)
        /\ conn[p] = Other(p)
        /\ acceptCh[p] = <<>>
        /\ pc[p]["acceptOnce"] = "done"

\* C15: main is in its loop from the return of establishConn; it leaves the
\* loop only by a step taken with done closed; once it has left, it stays
\* there and prints nothing more; the notice is the last thing it printed.
C15_LoopMachine ==
    /\ [](\A p \in Peers :
            /\ (Session(p) /\ Up(p)) => pc[p]["main"] = "loop"
            /\ pc[p]["main"] = "returned"
               => /\ proc[p] = "exited"
                  /\ done[p] = "closed"
                  /\ console[p] # <<>>
                  /\ console[p][Len(console[p])] = Notice)
    /\ [][\A p \in Peers :
            /\ (pc[p]["main"] = "loop" /\ pc'[p]["main"] = "returned")
               => done[p] = "closed"
            /\ pc[p]["main"] = "returned"
               => /\ pc'[p]["main"] = "returned"
                  /\ console'[p] = console[p]
                  /\ proc'[p] = proc[p]]_vars

\* main has left its loop after displaying a received line
C15_TerminatedAfterLine ==
    \E p \in Peers :
        /\ pc[p]["main"] = "returned"
        /\ Len(console[p]) >= 2

C17_NoFailureSurfaced ==
    /\ [](\A p \in Peers :
            /\ pc[p]["main"] \in {"listen", "poll", "dial", "sleep", "loop",
                                  "returned", "gone"}
            /\ conn[p] \in Peers \cup {"none"}
            /\ pc[p]["main"] \in {"loop", "returned"} => Session(p))
    /\ [][\A p \in Peers :
            /\ (pc[p]["main"] = "dial" /\ pc'[p]["main"] \notin {"dial", "gone"})
               => IF DialOk(p)
                  THEN pc'[p]["main"] = "loop" /\ conn'[p] = p
                  ELSE pc'[p]["main"] = "sleep" /\ conn'[p] = "none"
            /\ pc[p]["main"] = "sleep"
               => pc'[p]["main"] \in {"sleep", "poll", "gone"}
            /\ (~Session(p) /\ conn'[p] # "none")
               => \/ pc[p]["main"] = "dial" /\ DialOk(p) /\ conn'[p] = p
                  \/ /\ pc[p]["main"] = "poll" /\ acceptCh[p] # <<>>
                     /\ conn'[p] = Head(acceptCh[p])]_vars

\* a dial has failed and the resolver sleeps before its next iteration,
\* while the other peer is by now connected
C17_RetryPending ==
    \E p \in Peers :
        /\ At(p, "main", "sleep")
        /\ ~Session(p)
        /\ Session(Other(p))

\* C18: when both resolvers have returned, they returned the two ends of
\* the same connection.
C18_OneConnection ==
    (\A p \in Peers : Session(p)) => conn["A"] = conn["B"]

\* C19: when main has left its loop after connReader closed done at the end
\* of the stream (no write having failed), it has displayed every line
\* connReader pushed onto incoming, in order, before the notice.
C19_QueuedLinesDisplayed ==
    \A p \in Peers :
        (pc[p]["main"] = "returned" /\ ~wrFailed[p])
        => console[p] = recvd[p] \o <<Notice>>

====
